---- MODULE Spec2Model ----
(***************************************************************************)
(* Stock-Analyzer: the persistence layer (database.py), the session's      *)
(* watchlist initialisation (app.py) and the metrics engine (utils.py).    *)
(*                                                                         *)
(* Tables are sequences of rows in insertion order (the autoincrement id   *)
(* of a row is not stored; a row's position stands for it).  added_at and  *)
(* updated_at are not modelled; searched_at is a logical timestamp.        *)
(* Every persistence operation takes an input `fail`: the connection or a  *)
(* statement of the operation raises.  A statement that raised leaves the  *)
(* table as it was (nothing was committed).                                *)
(***************************************************************************)
EXTENDS Integers, Sequences, FiniteSets, TLC

VARIABLES watchlists,        \* table watchlists: rows [user_id, ticker]
          search_history,    \* table search_history: rows [user_id, ticker, searched_at]
          user_preferences,  \* table user_preferences: rows [user_id, default_ticker, ...]
          session_state,     \* st.session_state: its keys and their values
          last,              \* the last operation called and what it returned, keyed
                             \* by the operation's name (see Last); twice: it repeats
                             \* the call before it (first: that call returned True)
          prev,              \* the three tables as they were before the last operation
          nops,              \* number of operations called so far (what the
                             \* behaviour has spent, in the application)
          df,                \* the price table handed to calculate_performance_metrics
          metrics,           \* its result
          widgets,           \* the values the input widgets hold between script runs
          screen             \* what the last script run of the application showed

vars == <<watchlists, search_history, user_preferences, session_state,
          last, prev, nops, df, metrics, widgets, screen>>

dbvars == <<watchlists, search_history, user_preferences, session_state,
            last, prev, nops>>

appvars == <<widgets, screen>>

(***************************************************************************)
(* Bounds of the model.                                                    *)
(***************************************************************************)
\* operations called in one behaviour
MaxOps == 3
\* how many of the default tickers the model seeds
NumDefaults == 2

(***************************************************************************)
(* Program constants.                                                      *)
(***************************************************************************)
USER_ID == "default_user"

Users == {USER_ID, "other_user"}

AllDefaultTickers == <<"AAPL", "MSFT", "GOOGL", "AMZN", "META">>

default_watchlist == SubSeq(AllDefaultTickers, 1, NumDefaults)

Tickers == {default_watchlist[i] : i \in 1..Len(default_watchlist)}

\* get_recent_searches(user_id, limit=5)
RecentLimit == 5

PrefFields == {"default_ticker", "default_period", "theme", "show_ma50", "show_ma200"}

\* the mapping get_user_preferences returns when the storage fails
SafePreferences ==
    [default_ticker |-> "AAPL", default_period |-> "1 Year", theme |-> "light",
     show_ma50 |-> 1, show_ma200 |-> 1]

\* the row get_user_preferences inserts (and returns) for a user without one;
\* its values are the column defaults of the table as well
DefaultPreferences(user_id) ==
    [user_id |-> user_id, default_ticker |-> "AAPL", default_period |-> "1 Year",
     theme |-> "light", show_ma50 |-> 1, show_ma200 |-> 1]

\* preference mappings handed to update_user_preferences: the full mapping the
\* Save Preferences handler builds, and partial ones
PrefInputs ==
    { [theme |-> "dark", default_ticker |-> "MSFT", default_period |-> "1 Month",
       show_ma50 |-> 0, show_ma200 |-> 0],
      [theme |-> "dark"],
      [default_ticker |-> "MSFT", show_ma50 |-> 0] }

(***************************************************************************)
(* Outcomes of a call: a returned value or a raised exception.             *)
(***************************************************************************)
Return(v) == [exc |-> FALSE, val |-> v]

Raise == [exc |-> TRUE, val |-> "Exception"]

Propagate(r, safe) == r

\* try: <body> except Exception: return <safe>
TryExcept(r, safe) == IF r.exc THEN Return(safe) ELSE r

(***************************************************************************)
(* Rows.                                                                   *)
(***************************************************************************)
RowsOf(tbl, user_id) ==
    LET Mine(r) == r.user_id = user_id IN SelectSeq(tbl, Mine)

CountRows(tbl, user_id, ticker) ==
    Cardinality({i \in 1..Len(tbl) :
                   tbl[i].user_id = user_id /\ tbl[i].ticker = ticker})

CountUser(tbl, user_id) ==
    Cardinality({i \in 1..Len(tbl) : tbl[i].user_id = user_id})

Reverse(s) == [i \in 1..Len(s) |-> s[Len(s) + 1 - i]]

Take(s, k) == SubSeq(s, 1, IF Len(s) < k THEN Len(s) ELSE k)

(***************************************************************************)
(* Watchlist operations.  Each gives the table after the call and the      *)
(* call's outcome.                                                         *)
(***************************************************************************)
get_watchlist(tbl, user_id, fail) ==
    LET rows == RowsOf(tbl, user_id)
        body == IF fail THEN Raise
                ELSE Return([i \in 1..Len(rows) |-> rows[i].ticker])
    IN  [tbl |-> tbl, out |-> TryExcept(body, <<>>)]

add_to_watchlist_nocheck(tbl, ticker, user_id, fail) ==
    IF fail THEN [tbl |-> tbl, out |-> Return(FALSE)]
    ELSE [tbl |-> Append(tbl, [user_id |-> user_id, ticker |-> ticker]),
          out |-> Return(TRUE)]

add_to_watchlist(tbl, ticker, user_id, fail) ==
    LET existing == CountRows(tbl, user_id, ticker) > 0
        body == IF fail THEN [tbl |-> tbl, out |-> Raise]
                ELSE IF ~existing
                     THEN [tbl |-> Append(tbl, [user_id |-> user_id, ticker |-> ticker]),
                           out |-> Return(TRUE)]
                     ELSE [tbl |-> tbl, out |-> Return(FALSE)]
    IN  [tbl |-> body.tbl, out |-> TryExcept(body.out, FALSE)]

remove_from_watchlist_any_user(tbl, ticker, user_id, fail) ==
    LET Keep(r) == r.ticker # ticker
    IN  IF fail THEN [tbl |-> tbl, out |-> Return(FALSE)]
        ELSE [tbl |-> SelectSeq(tbl, Keep), out |-> Return(TRUE)]

remove_from_watchlist(tbl, ticker, user_id, fail) ==
    LET Keep(r) == ~(r.user_id = user_id /\ r.ticker = ticker)
        body == IF fail THEN [tbl |-> tbl, out |-> Raise]
                ELSE [tbl |-> SelectSeq(tbl, Keep), out |-> Return(TRUE)]
    IN  [tbl |-> body.tbl, out |-> TryExcept(body.out, FALSE)]

(***************************************************************************)
(* Search history operations.                                              *)
(***************************************************************************)
add_to_search_history_once(tbl, ticker, user_id, fail) ==
    IF fail THEN [tbl |-> tbl, out |-> Return(FALSE)]
    ELSE IF CountRows(tbl, user_id, ticker) > 0
         THEN [tbl |-> tbl, out |-> Return(TRUE)]
         ELSE [tbl |-> Append(tbl, [user_id |-> user_id, ticker |-> ticker,
                                    searched_at |-> Len(tbl) + 1]),
               out |-> Return(TRUE)]

add_to_search_history_unguarded(tbl, ticker, user_id, fail) ==
    IF fail THEN [tbl |-> tbl, out |-> Raise]
    ELSE [tbl |-> Append(tbl, [user_id |-> user_id, ticker |-> ticker,
                               searched_at |-> Len(tbl) + 1]),
          out |-> Return(TRUE)]

add_to_search_history(tbl, ticker, user_id, fail) ==
    LET body == IF fail THEN [tbl |-> tbl, out |-> Raise]
                ELSE [tbl |-> Append(tbl, [user_id |-> user_id, ticker |-> ticker,
                                           searched_at |-> Len(tbl) + 1]),
                      out |-> Return(TRUE)]
    IN  [tbl |-> body.tbl, out |-> TryExcept(body.out, FALSE)]

\* order_by(searched_at.desc()).limit(limit): the table holds the rows in
\* ascending searched_at
get_recent_searches(tbl, user_id, limit, fail) ==
    LET rows == Take(Reverse(RowsOf(tbl, user_id)), limit)
        body == IF fail THEN Raise
                ELSE Return([i \in 1..Len(rows) |->
                               <<rows[i].ticker, rows[i].searched_at>>])
    IN  [tbl |-> tbl, out |-> TryExcept(body, <<>>)]

(***************************************************************************)
(* User preferences operations.                                            *)
(***************************************************************************)
\* insert(user_preferences): user_id is declared unique
insert_user_preferences(tbl, row) ==
    IF CountUser(tbl, row.user_id) > 0
    THEN [tbl |-> tbl, out |-> Raise]
    ELSE [tbl |-> Append(tbl, row), out |-> Return(TRUE)]

\* .values(**preferences) on a row
SetValues(row, preferences) ==
    [f \in DOMAIN row |-> IF f \in DOMAIN preferences THEN preferences[f] ELSE row[f]]

get_user_preferences(tbl, user_id, fail) ==
    LET rows == RowsOf(tbl, user_id)
        ins  == insert_user_preferences(tbl, DefaultPreferences(user_id))
        body == IF fail THEN [tbl |-> tbl, out |-> Raise]
                ELSE IF Len(rows) > 0
                     THEN [tbl |-> tbl, out |-> Return(rows[1])]
                     ELSE IF ins.out.exc THEN [tbl |-> tbl, out |-> Raise]
                          ELSE [tbl |-> ins.tbl,
                                out |-> Return(DefaultPreferences(user_id))]
    IN  [tbl |-> body.tbl, out |-> TryExcept(body.out, SafePreferences)]

update_user_preferences_nocommit(tbl, preferences, user_id, fail) ==
    IF fail THEN [tbl |-> tbl, out |-> Return(FALSE)]
    ELSE IF CountUser(tbl, user_id) > 0
         THEN [tbl |-> tbl, out |-> Return(TRUE)]
         ELSE [tbl |-> Append(tbl, SetValues(DefaultPreferences(user_id), preferences)),
               out |-> Return(TRUE)]

update_user_preferences(tbl, preferences, user_id, fail) ==
    LET existing_id == CountUser(tbl, user_id) > 0
        ins  == insert_user_preferences(
                    tbl, SetValues(DefaultPreferences(user_id), preferences))
        body == IF fail THEN [tbl |-> tbl, out |-> Raise]
                ELSE IF existing_id
                     THEN [tbl |-> [i \in 1..Len(tbl) |->
                                      IF tbl[i].user_id = user_id
                                      THEN SetValues(tbl[i], preferences)
                                      ELSE tbl[i]],
                           out |-> Return(TRUE)]
                     ELSE ins
    IN  [tbl |-> body.tbl, out |-> TryExcept(body.out, FALSE)]

(***************************************************************************)
(* Numbers of the metrics engine.  A float is an exact rational n/d, NaN,  *)
(* +inf or -inf; rounding is not modelled.  The two values the code        *)
(* derives from a square root are kept in closed form:                     *)
(*   root:    sign(n) * sqrt(|n|/d)                                        *)
(*   root252: sign(n) * sqrt(|n|/d) * sqrt(252)                            *)
(* with the value zero always written as the rational 0.                   *)
(***************************************************************************)
Abs(x) == IF x < 0 THEN -x ELSE x

RECURSIVE Gcd(_, _)
Gcd(a, b) == IF b = 0 THEN a ELSE Gcd(b, a % b)

Rat(n, d) ==
    LET g == Gcd(Abs(n), Abs(d))
        s == IF d < 0 THEN -1 ELSE 1
    IN  [k |-> "rat", n |-> s * (n \div g), d |-> s * (d \div g)]

NaN == [k |-> "nan", n |-> 0, d |-> 1]

Inf(sign) == [k |-> IF sign < 0 THEN "ninf" ELSE "inf", n |-> 0, d |-> 1]

Zero == Rat(0, 1)

IsNaN(v) == v.k = "nan"

IsInf(v) == v.k \in {"inf", "ninf"}

Sign(v) ==
    CASE v.k = "inf" -> 1
      [] v.k = "ninf" -> -1
      [] OTHER -> IF v.n > 0 THEN 1 ELSE IF v.n < 0 THEN -1 ELSE 0

\* a / b
VDiv(a, b) ==
    CASE IsNaN(a) \/ IsNaN(b) -> NaN
      [] IsInf(a) -> IF IsInf(b) THEN NaN
                     ELSE Inf(Sign(a) * (IF Sign(b) < 0 THEN -1 ELSE 1))
      [] IsInf(b) -> Zero
      [] b.n = 0 -> IF a.n = 0 THEN NaN ELSE Inf(Sign(a))
      [] OTHER ->
           LET g1 == Gcd(Abs(a.n), Abs(b.n))
               g2 == Gcd(a.d, b.d)
           IN  Rat((a.n \div g1) * (b.d \div g2), (a.d \div g2) * (b.n \div g1))

\* a * b
VMul(a, b) ==
    CASE IsNaN(a) \/ IsNaN(b) -> NaN
      [] IsInf(a) \/ IsInf(b) ->
           IF Sign(a) = 0 \/ Sign(b) = 0 THEN NaN ELSE Inf(Sign(a) * Sign(b))
      [] OTHER ->
           LET g1 == Gcd(Abs(a.n), b.d)
               g2 == Gcd(Abs(b.n), a.d)
           IN  Rat((a.n \div g1) * (b.n \div g2), (a.d \div g2) * (b.d \div g1))

\* a + b
VAdd(a, b) ==
    CASE IsNaN(a) \/ IsNaN(b) -> NaN
      [] IsInf(a) /\ IsInf(b) -> IF a.k = b.k THEN a ELSE NaN
      [] IsInf(a) -> a
      [] IsInf(b) -> b
      [] OTHER ->
           LET g == Gcd(a.d, b.d)
           IN  Rat(a.n * (b.d \div g) + b.n * (a.d \div g), (a.d \div g) * b.d)

VNeg(a) == IF IsInf(a) THEN Inf(-Sign(a)) ELSE [a EXCEPT !.n = -a.n]

\* a - b
VSub(a, b) == VAdd(a, VNeg(b))

\* a > 0 (False for NaN)
Positive(v) == v.k = "inf" \/ (v.k \in {"rat", "root", "root252"} /\ v.n > 0)

\* sqrt(v) of a rational v >= 0
Sqrt(v) == IF v.n = 0 THEN Zero ELSE [k |-> "root", n |-> v.n, d |-> v.d]

\* v * np.sqrt(252) of a root, of zero, of an infinity or of NaN
TimesSqrt252(v) ==
    CASE v.k = "root" -> [k |-> "root252", n |-> v.n, d |-> v.d]
      [] v.k = "rat" /\ v.n = 0 -> Zero
      [] IsInf(v) -> v
      [] OTHER -> NaN

\* a / s of a float a and s, a root, zero or NaN
DivByRoot(a, s) ==
    CASE IsNaN(a) \/ IsNaN(s) -> NaN
      [] s.n = 0 -> IF Sign(a) = 0 THEN NaN ELSE Inf(Sign(a))
      [] IsInf(a) -> a
      [] a.n = 0 -> Zero
      [] OTHER ->
           LET q == VDiv(VMul(a, a), Rat(s.n, s.d))
           IN  [k |-> "root", n |-> Sign(a) * q.n, d |-> q.d]

(***************************************************************************)
(* pandas: positions, pct_change, dropna, mean and std of a column.        *)
(***************************************************************************)
\* s.iloc[i], i counted from 0, a negative i from the end
Iloc(s, i) == IF i >= 0 THEN s[i + 1] ELSE s[Len(s) + i + 1]

Column(frame, name) == [i \in 1..Len(frame) |-> frame[i][name]]

\* Series.pct_change(): s / s.shift(1) - 1, undefined at the first position
PctChange(s) ==
    [i \in 1..Len(s) |->
        IF i = 1 THEN NaN ELSE VSub(VDiv(s[i], s[i - 1]), Rat(1, 1))]

DropNa(s) == LET Defined(v) == ~IsNaN(v) IN SelectSeq(s, Defined)

\* the sum of s[lo..hi], halving the range (exact sums do not depend on the order)
RECURSIVE SumRange(_, _, _)
SumRange(s, lo, hi) ==
    IF lo > hi THEN Zero
    ELSE IF lo = hi THEN s[lo]
    ELSE LET mid == (lo + hi) \div 2
         IN  VAdd(SumRange(s, lo, mid), SumRange(s, mid + 1, hi))

Sum(s) == SumRange(s, 1, Len(s))

SumSq(s) == Sum([i \in 1..Len(s) |-> VMul(s[i], s[i])])

\* Series.mean(): NaN skipped; NaN when nothing is left
SeriesMean(s) ==
    LET x == DropNa(s)
    IN  IF Len(x) = 0 THEN NaN ELSE VDiv(Sum(x), Rat(Len(x), 1))

\* Series.std(): NaN skipped, ddof = 1; NaN with fewer than two values or
\* with an infinite one.  The variance is (sum x^2 - (sum x)^2 / m) / (m - 1).
SeriesStd(s) ==
    LET x  == DropNa(s)
        m  == Len(x)
        sm == Sum(x)
        var == VDiv(VSub(SumSq(x), VDiv(VMul(sm, sm), Rat(m, 1))),
                    Rat(m - 1, 1))
    IN  IF m < 2 \/ \E i \in 1..m : IsInf(x[i]) THEN NaN ELSE Sqrt(var)

(***************************************************************************)
(* calculate_performance_metrics(df).  df is a sequence of bars            *)
(* [date, Close], date in days from January 1 of the current year.         *)
(***************************************************************************)
Hundred == Rat(100, 1)

\* ((a / b) - 1) * 100
PctOver(a, b) == VMul(VSub(VDiv(a, b), Rat(1, 1)), Hundred)

\* datetime(current_year, 1, 1), the origin of the dates
start_of_year == 0

daily_return(frame) ==
    LET pc == PctChange(Column(frame, "Close"))
    IN  [i \in 1..Len(frame) |-> VMul(pc[i], Hundred)]

daily_returns_first(frame) ==
    IF Len(frame) > 1 THEN Iloc(daily_return(frame), 1) ELSE Zero

daily_returns(frame) ==
    IF Len(frame) > 1 THEN Iloc(daily_return(frame), -1) ELSE Zero

monthly_returns_off_by_one(frame) ==
    LET Close == Column(frame, "Close")
    IN  IF Len(frame) >= 30
        THEN PctOver(Iloc(Close, -1), Iloc(Close, -29))
        ELSE PctOver(Iloc(Close, -1), Iloc(Close, 0))

monthly_returns(frame) ==
    LET Close == Column(frame, "Close")
    IN  IF Len(frame) >= 30
        THEN PctOver(Iloc(Close, -1), Iloc(Close, -30))
        ELSE PctOver(Iloc(Close, -1), Iloc(Close, 0))

ytd_returns_after_jan_1(frame) ==
    LET InYear(bar) == bar.date > start_of_year
        ytd_data == SelectSeq(frame, InYear)
        Close == Column(ytd_data, "Close")
    IN  IF Len(ytd_data) > 0
        THEN PctOver(Iloc(Close, -1), Iloc(Close, 0))
        ELSE Zero

ytd_returns(frame) ==
    LET InYear(bar) == bar.date >= start_of_year
        ytd_data == SelectSeq(frame, InYear)
        Close == Column(ytd_data, "Close")
    IN  IF Len(ytd_data) > 0
        THEN PctOver(Iloc(Close, -1), Iloc(Close, 0))
        ELSE Zero

annual_returns_off_by_one(frame) ==
    LET Close == Column(frame, "Close")
    IN  IF Len(frame) > 252
        THEN PctOver(Iloc(Close, -1), Iloc(Close, -251))
        ELSE PctOver(Iloc(Close, -1), Iloc(Close, 0))

annual_returns(frame) ==
    LET Close == Column(frame, "Close")
    IN  IF Len(frame) > 252
        THEN PctOver(Iloc(Close, -1), Iloc(Close, -252))
        ELSE PctOver(Iloc(Close, -1), Iloc(Close, 0))

volatility(frame) == TimesSqrt252(SeriesStd(daily_return(frame)))

sharpe_ratio_unguarded(frame) ==
    LET avg_daily_return == SeriesMean(daily_return(frame))
        daily_std == SeriesStd(daily_return(frame))
    IN  TimesSqrt252(DivByRoot(avg_daily_return, daily_std))

sharpe_ratio(frame) ==
    LET avg_daily_return == SeriesMean(daily_return(frame))
        daily_std == SeriesStd(daily_return(frame))
    IN  IF Positive(daily_std)
        THEN TimesSqrt252(DivByRoot(avg_daily_return, daily_std))
        ELSE Zero

calculate_performance_metrics(frame) ==
    [done |-> TRUE,
     daily_returns |-> daily_returns(frame),
     monthly_returns |-> monthly_returns(frame),
     ytd_returns |-> ytd_returns(frame),
     annual_returns |-> annual_returns(frame),
     volatility |-> volatility(frame),
     returns |-> DropNa(daily_return(frame)),
     sharpe_ratio |-> sharpe_ratio(frame)]

(***************************************************************************)
(* The persistence layer as a state machine: any caller may call any       *)
(* operation with any arguments, and the storage may fail in any call.     *)
(***************************************************************************)
Tables == [watchlists |-> watchlists, search_history |-> search_history,
           user_preferences |-> user_preferences]

\* The record of the last call.  Arguments and return values have a different
\* type in each operation, so the record is kept under the operation's name:
\* records of different operations differ in their key already.
Last == last[CHOOSE op \in DOMAIN last : TRUE]

\* the call repeats the call before it, and the storage failed in neither
Twice(op, user_id, arg, fail) ==
    /\ Last.op = op
    /\ Last.user = user_id
    /\ Last.arg = arg
    /\ ~Last.failed
    /\ ~fail

Called(op, user_id, arg, fail, out) ==
    /\ nops < MaxOps
    /\ nops' = nops + 1
    /\ prev' = Tables
    /\ last' = op :> [op |-> op, user |-> user_id, arg |-> arg, failed |-> fail,
                      exc |-> out.exc, val |-> out.val,
                      twice |-> Twice(op, user_id, arg, fail),
                      first |-> /\ Twice(op, user_id, arg, fail)
                                /\ op = "add_to_watchlist"
                                /\ Last.val = TRUE]

GetWatchlist ==
    \E u \in Users, fail \in BOOLEAN :
        LET r == get_watchlist(watchlists, u, fail) IN
        /\ Called("get_watchlist", u, "", fail, r.out)
        /\ UNCHANGED <<watchlists, search_history, user_preferences, session_state,
                       df, metrics, appvars>>

AddToWatchlist ==
    \E t \in Tickers, u \in Users, fail \in BOOLEAN :
        LET r == add_to_watchlist(watchlists, t, u, fail) IN
        /\ Called("add_to_watchlist", u, t, fail, r.out)
        /\ watchlists' = r.tbl
        /\ UNCHANGED <<search_history, user_preferences, session_state, df, metrics, appvars>>

RemoveFromWatchlist ==
    \E t \in Tickers, u \in Users, fail \in BOOLEAN :
        LET r == remove_from_watchlist(watchlists, t, u, fail) IN
        /\ Called("remove_from_watchlist", u, t, fail, r.out)
        /\ watchlists' = r.tbl
        /\ UNCHANGED <<search_history, user_preferences, session_state, df, metrics, appvars>>

AddToSearchHistory ==
    \E t \in Tickers, u \in Users, fail \in BOOLEAN :
        LET r == add_to_search_history(search_history, t, u, fail) IN
        /\ Called("add_to_search_history", u, t, fail, r.out)
        /\ search_history' = r.tbl
        /\ UNCHANGED <<watchlists, user_preferences, session_state, df, metrics, appvars>>

GetRecentSearches ==
    \E u \in Users, fail \in BOOLEAN :
        LET r == get_recent_searches(search_history, u, RecentLimit, fail) IN
        /\ Called("get_recent_searches", u, "", fail, r.out)
        /\ UNCHANGED <<watchlists, search_history, user_preferences, session_state,
                       df, metrics, appvars>>

GetUserPreferences ==
    \E u \in Users, fail \in BOOLEAN :
        LET r == get_user_preferences(user_preferences, u, fail) IN
        /\ Called("get_user_preferences", u, "", fail, r.out)
        /\ user_preferences' = r.tbl
        /\ UNCHANGED <<watchlists, search_history, session_state, df, metrics, appvars>>

UpdateUserPreferences ==
    \E p \in PrefInputs, u \in Users, fail \in BOOLEAN :
        LET r == update_user_preferences(user_preferences, p, u, fail) IN
        /\ Called("update_user_preferences", u, p, fail, r.out)
        /\ user_preferences' = r.tbl
        /\ UNCHANGED <<watchlists, search_history, session_state, df, metrics, appvars>>

(***************************************************************************)
(* A session starts: 'watchlist' is not in st.session_state yet.  The      *)
(* stored watchlist of USER_ID is read; when it is empty (or could not be  *)
(* read) the session takes the default watchlist and every default ticker  *)
(* is added to the table.  An exception leaving a database call ends the   *)
(* try block.                                                              *)
(***************************************************************************)
RECURSIVE SeedDefaults(_, _, _)
SeedDefaults(tbl, i, failAdd) ==
    IF i > Len(default_watchlist) THEN tbl
    ELSE LET r == add_to_watchlist(tbl, default_watchlist[i], USER_ID, failAdd[i])
         IN  IF r.out.exc THEN r.tbl ELSE SeedDefaults(r.tbl, i + 1, failAdd)

\* app.py 78-93: the table afterwards and the watchlist of the session
watchlist_init(tbl, failGet, failAdd) ==
    LET g == get_watchlist(tbl, USER_ID, failGet)
        watchlist_from_db == IF g.out.exc THEN <<>> ELSE g.out.val
        seeded == Len(watchlist_from_db) = 0
    IN  [tbl |-> IF seeded /\ ~g.out.exc THEN SeedDefaults(tbl, 1, failAdd) ELSE tbl,
         watchlist |-> IF seeded THEN default_watchlist ELSE watchlist_from_db]

WatchlistInit ==
    \E failGet \in BOOLEAN, failAdd \in [1..Len(default_watchlist) -> BOOLEAN] :
        LET w == watchlist_init(watchlists, failGet, failAdd)
        IN
        /\ Called("watchlist_init", USER_ID, "", failGet, Return(w.watchlist))
        /\ session_state' = [session_state EXCEPT !.has_watchlist = TRUE,
                                                  !.watchlist = w.watchlist]
        /\ watchlists' = w.tbl
        /\ UNCHANGED <<search_history, user_preferences, df, metrics, appvars>>

NoCall == "none" :> [op |-> "none", user |-> "", arg |-> "", failed |-> FALSE,
                     exc |-> FALSE, val |-> FALSE, twice |-> FALSE, first |-> FALSE]

EmptyTables == [watchlists |-> <<>>, search_history |-> <<>>, user_preferences |-> <<>>]

\* a session before its first script run: st.session_state holds no key
NoSession ==
    [db_initialized |-> FALSE, db_connected |-> FALSE,
     has_user_preferences |-> FALSE, user_preferences |-> SafePreferences,
     has_watchlist |-> FALSE, watchlist |-> <<>>,
     has_selected_ticker |-> FALSE, selected_ticker |-> ""]

\* the widgets at their initial values: the ticker selectbox at index 0
NoInput == [ticker_input |-> "AAPL"]

\* nothing shown yet
BlankScreen ==
    [completed |-> FALSE, rerun |-> FALSE, uncaught |-> FALSE,
     clicked |-> "", rerun_of |-> "", fetched |-> "",
     recent |-> "", recent_buttons |-> <<>>, watch_buttons |-> <<>>,
     watch |-> "", prefs |-> "", main |-> "", info |-> "",
     storage_ok |-> TRUE]

InitDB ==
    /\ watchlists = <<>>
    /\ search_history = <<>>
    /\ user_preferences = <<>>
    /\ session_state = NoSession
    /\ widgets = NoInput
    /\ screen = BlankScreen
    /\ last = NoCall
    /\ prev = EmptyTables
    /\ nops = 0

NoMetrics == [done |-> FALSE]

Init ==
    /\ InitDB
    /\ df = <<>>
    /\ metrics = NoMetrics

Next ==
    \/ GetWatchlist
    \/ AddToWatchlist
    \/ RemoveFromWatchlist
    \/ AddToSearchHistory
    \/ GetRecentSearches
    \/ GetUserPreferences
    \/ UpdateUserPreferences
    \/ WatchlistInit

Spec == Init /\ [][Next]_vars

(***************************************************************************)
(* The metrics engine on a family of price tables: n bars on consecutive   *)
(* days, the last one on day lastDay, the closes repeating a pattern.      *)
(***************************************************************************)
\* lengths 1..SmallBars, and the lengths within Around of 30 and of 252
SmallBars == 4
Around == 1
\* the last bar lies within DaySpan days of January 1
DaySpan == 1

Lengths ==
    (1..SmallBars) \cup ((30 - Around)..(30 + Around)) \cup {40}
        \cup ((252 - Around)..(252 + Around))

ClosePatterns == {<<1>>, <<0>>, <<1, 2>>, <<1, 1, 2>>, <<1, 0, 2>>}

LastDays(n) == ((start_of_year - DaySpan)..(start_of_year + DaySpan))
                   \cup {start_of_year + n - 2, start_of_year + n - 1, start_of_year + n}

PriceTable(n, pattern, phase, lastDay) ==
    [i \in 1..n |->
        [date |-> lastDay - (n - i),
         Close |-> Rat(pattern[((i - 1 + phase) % Len(pattern)) + 1], 1)]]

InitMetrics ==
    /\ InitDB
    /\ metrics = NoMetrics
    /\ \E n \in Lengths, pattern \in ClosePatterns :
          \E phase \in 0..(Len(pattern) - 1), lastDay \in LastDays(n) :
              df = PriceTable(n, pattern, phase, lastDay)

\* calculate_performance_metrics(df): the table gains the column daily_return
CalculatePerformanceMetrics ==
    /\ ~metrics.done
    /\ Len(df) > 0
    /\ metrics' = calculate_performance_metrics(df)
    /\ df' = [i \in 1..Len(df) |->
                [date |-> df[i].date, Close |-> df[i].Close,
                 daily_return |-> daily_return(df)[i]]]
    /\ UNCHANGED <<dbvars, appvars>>

NextMetrics == CalculatePerformanceMetrics

SpecMetrics == InitMetrics /\ [][NextMetrics]_vars

(***************************************************************************)
(* The application.  Streamlit runs the script of app.py from top to       *)
(* bottom at the start of a session and after every interaction; a button  *)
(* returns True in the run its click started.  st.rerun() ends the run and *)
(* starts another one.  A script run is the composition of the sections of *)
(* the script, each a function of the run's state s:                       *)
(*   s.db       the three tables                                           *)
(*   s.ss       st.session_state                                           *)
(*   s.input    the values of the input widgets                            *)
(*   s.out      what the run shows                                         *)
(*   s.df, s.metrics   the price table fetched and the metrics computed    *)
(*   s.stop     "" while the script runs, "rerun" after st.rerun(),        *)
(*              "uncaught" after an exception that no handler catches       *)
(* ev is the interaction that started the run and f the outcome of every   *)
(* storage and provider call the run may make.                             *)
(***************************************************************************)
\* what one behaviour may spend: one unit for every interaction of the user
\* and one for every script run in which a call fails
Budget == 3

\* the tickers the user works with: the default watchlist and one more of
\* popular_tickers
AppTickers == Tickers \cup {"TSLA"}

period_options == {"1 Month", "3 Months", "6 Months", "1 Year", "2 Years", "5 Years"}

\* new_prefs as the Save Preferences handler builds it from the widgets
NewPrefs ==
    { [theme |-> "dark", default_ticker |-> "MSFT", default_period |-> "1 Month",
       show_ma50 |-> 0, show_ma200 |-> 1],
      [theme |-> "light", default_ticker |-> "", default_period |-> "5 Years",
       show_ma50 |-> 1, show_ma200 |-> 1] }

\* the price table the provider returns when it has data
ProviderData == PriceTable(3, <<1, 2>>, 0, start_of_year)

InSeq(x, seq) == \E i \in 1..Len(seq) : seq[i] = x

HasDuplicates(seq) == \E i, j \in 1..Len(seq) : i < j /\ seq[i] = seq[j]

\* list.remove(x): the first occurrence
RemoveFirst(seq, x) ==
    LET k == CHOOSE i \in 1..Len(seq) : seq[i] = x /\ \A j \in 1..(i - 1) : seq[j] # x
    IN  SubSeq(seq, 1, k - 1) \o SubSeq(seq, k + 1, Len(seq))

init_db(fail) == TryExcept(IF fail THEN Raise ELSE Return(TRUE), FALSE)

\* outcome: the provider raises, returns an empty table, or returns data
fetch_stock_data_propagating(outcome) ==
    IF outcome = "raise" THEN Raise
    ELSE Return(IF outcome = "empty" THEN <<>> ELSE ProviderData)

fetch_stock_data(outcome) ==
    TryExcept(IF outcome = "raise" THEN Raise
              ELSE Return(IF outcome = "empty" THEN <<>> ELSE ProviderData),
              <<>>)

\* outcome: the provider raises or returns the info mapping
fetch_company_info(outcome) ==
    TryExcept(IF outcome = "raise" THEN Raise ELSE Return("info"), "None")

\* app.py 51-59
InitDatabase(s, f) ==
    IF s.ss.db_initialized THEN s
    ELSE LET r == init_db(f.init_db)
         IN  [s EXCEPT !.ss.db_initialized = TRUE,
                       !.ss.db_connected = IF r.exc THEN FALSE ELSE r.val]

\* app.py 65-76
InitPreferences(s, f) ==
    IF s.ss.has_user_preferences THEN s
    ELSE LET r == get_user_preferences(s.db.user_preferences, USER_ID,
                                       f.get_user_preferences)
         IN  [s EXCEPT !.db.user_preferences = r.tbl,
                       !.ss.has_user_preferences = TRUE,
                       !.ss.user_preferences =
                           IF r.out.exc THEN SafePreferences ELSE r.out.val]

\* app.py 78-93
InitWatchlist(s, f) ==
    IF s.ss.has_watchlist THEN s
    ELSE LET w == watchlist_init(s.db.watchlists, f.get_watchlist, f.seed)
         IN  [s EXCEPT !.db.watchlists = w.tbl,
                       !.ss.has_watchlist = TRUE,
                       !.ss.watchlist = w.watchlist]

\* app.py 95-100
InitSelectedTicker(s) ==
    IF s.ss.has_selected_ticker THEN s
    ELSE [s EXCEPT !.ss.has_selected_ticker = TRUE,
                   !.ss.selected_ticker =
                       IF s.ss.user_preferences.default_ticker # ""
                       THEN s.ss.user_preferences.default_ticker
                       ELSE "AAPL"]

\* app.py 160-165: the tickers of recent_searches in order, each once, without
\* the selected ticker
RECURSIVE unique_searches(_, _, _)
unique_searches(recent_searches, seen, selected_ticker) ==
    IF recent_searches = <<>> THEN <<>>
    ELSE LET ticker == Head(recent_searches)[1]
         IN  IF ticker \notin seen /\ ticker # selected_ticker
             THEN <<ticker>> \o unique_searches(Tail(recent_searches),
                                                seen \cup {ticker}, selected_ticker)
             ELSE unique_searches(Tail(recent_searches), seen, selected_ticker)

\* app.py 150-182
RecentSearches(s, ev, f) ==
    IF s.stop # "" \/ ~s.ss.db_connected THEN s
    ELSE LET r == get_recent_searches(s.db.search_history, USER_ID, RecentLimit,
                                      f.get_recent_searches)
             buttons == Take(unique_searches(r.out.val, {}, s.ss.selected_ticker), 6)
             h == add_to_search_history(s.db.search_history, ev.ticker, USER_ID, f.write)
         IN  IF r.out.exc THEN [s EXCEPT !.out.recent = "not available"]
             ELSE IF Len(r.out.val) = 0 THEN [s EXCEPT !.out.recent = "placeholder"]
             ELSE IF ev.name = "click_recent" /\ InSeq(ev.ticker, buttons)
                  THEN [s EXCEPT !.ss.selected_ticker = ev.ticker,
                                 !.db.search_history = h.tbl,
                                 !.out.clicked = ev.ticker,
                                 !.stop = "rerun"]
                  ELSE [s EXCEPT !.out.recent = "list",
                                 !.out.recent_buttons = buttons]

\* app.py 192-222 without the membership test of line 197
AddButton_unchecked(s, ev, f) ==
    LET new_ticker == ev.ticker
        a == IF s.ss.db_connected
             THEN add_to_watchlist(s.db.watchlists, new_ticker, USER_ID, f.write)
             ELSE [tbl |-> s.db.watchlists, out |-> Return(FALSE)]
        added_to_db == IF a.out.exc THEN FALSE ELSE a.out.val
    IN  IF s.stop # "" \/ ev.name # "click_add" THEN s
        ELSE IF new_ticker = "" THEN s
        ELSE IF f.check = "raise" THEN [s EXCEPT !.out.watch = "error"]
        ELSE IF f.check = "empty" THEN [s EXCEPT !.out.watch = "invalid"]
        ELSE IF added_to_db \/ ~InSeq(new_ticker, s.ss.watchlist)
             THEN [s EXCEPT !.db.watchlists = a.tbl,
                            !.ss.watchlist = Append(@, new_ticker),
                            !.out.watch = "added",
                            !.stop = "rerun"]
             ELSE [s EXCEPT !.db.watchlists = a.tbl,
                            !.out.watch = "already"]

\* app.py 192-222; f.check is the outcome of the provider's validity check
AddButton(s, ev, f) ==
    LET new_ticker == ev.ticker
        a == IF s.ss.db_connected
             THEN add_to_watchlist(s.db.watchlists, new_ticker, USER_ID, f.write)
             ELSE [tbl |-> s.db.watchlists, out |-> Return(FALSE)]
        added_to_db == IF a.out.exc THEN FALSE ELSE a.out.val
    IN  IF s.stop # "" \/ ev.name # "click_add" THEN s
        ELSE IF ~(new_ticker # "" /\ ~InSeq(new_ticker, s.ss.watchlist)) THEN s
        ELSE IF f.check = "raise" THEN [s EXCEPT !.out.watch = "error"]
        ELSE IF f.check = "empty" THEN [s EXCEPT !.out.watch = "invalid"]
        ELSE IF added_to_db \/ ~InSeq(new_ticker, s.ss.watchlist)
             THEN [s EXCEPT !.db.watchlists = a.tbl,
                            !.ss.watchlist = Append(@, new_ticker),
                            !.out.watch = "added",
                            !.stop = "rerun"]
             ELSE [s EXCEPT !.db.watchlists = a.tbl,
                            !.out.watch = "already"]

\* app.py 231-236, the button of a watchlist ticker: the call of
\* add_to_search_history stands in no try block
SelectButton(s, ticker, f) ==
    LET h == add_to_search_history(s.db.search_history, ticker, USER_ID, f.write)
    IN  IF h.out.exc
        THEN [s EXCEPT !.ss.selected_ticker = ticker, !.stop = "uncaught"]
        ELSE [s EXCEPT !.ss.selected_ticker = ticker,
                       !.db.search_history = h.tbl,
                       !.out.clicked = ticker,
                       !.stop = "rerun"]

\* app.py 238-242, the x button of a watchlist ticker, removing from the
\* session whatever the storage did
RemoveButton_session_only(s, ticker, f) ==
    [s EXCEPT !.ss.watchlist = RemoveFirst(@, ticker), !.stop = "rerun"]

\* app.py 238-242, the x button of a watchlist ticker
RemoveButton(s, ticker, f) ==
    LET r == remove_from_watchlist(s.db.watchlists, ticker, USER_ID, f.write)
    IN  IF r.out.exc THEN [s EXCEPT !.stop = "uncaught"]
        ELSE IF r.out.val
             THEN [s EXCEPT !.db.watchlists = r.tbl,
                            !.ss.watchlist = RemoveFirst(@, ticker),
                            !.stop = "rerun"]
             ELSE [s EXCEPT !.db.watchlists = r.tbl]

\* app.py 224-242: the buttons of the watchlist in order.  Streamlit raises
\* DuplicateWidgetID at the second button of one key, select_<ticker>.
WatchlistButtons(s, ev, f) ==
    LET watchlist == s.ss.watchlist
        repeated == {i \in 1..Len(watchlist) :
                       \E j \in 1..(i - 1) : watchlist[j] = watchlist[i]}
        rendered == {i \in 1..Len(watchlist) : \A j \in repeated : i < j}
        selected == {i \in rendered : ev.name = "click_select" /\ watchlist[i] = ev.ticker}
        removed  == {i \in rendered : ev.name = "click_remove" /\ i = ev.index}
        after == IF selected # {} THEN SelectButton(s, ev.ticker, f)
                 ELSE IF removed # {} THEN RemoveButton(s, watchlist[ev.index], f)
                 ELSE s
    IN  IF s.stop # "" THEN s
        ELSE IF after.stop # "" THEN after
        ELSE IF repeated # {} THEN [after EXCEPT !.stop = "uncaught"]
        ELSE [after EXCEPT !.out.watch_buttons = watchlist]

\* app.py 245-281.  list.index raises ValueError for a default_period that is
\* no key of period_options.  update_user_preferences sets user_id in the
\* mapping it is given when it inserts the row.
PreferencesExpander(s, ev, f) ==
    LET new_prefs == ev.prefs
        inserts == CountUser(s.db.user_preferences, USER_ID) = 0 /\ ~f.write
        u == update_user_preferences(s.db.user_preferences, new_prefs, USER_ID, f.write)
        kept == IF inserts THEN SetValues(DefaultPreferences(USER_ID), new_prefs)
                ELSE new_prefs
    IN  IF s.stop # "" THEN s
        ELSE IF s.ss.user_preferences.default_period \notin period_options
             THEN [s EXCEPT !.stop = "uncaught"]
        ELSE IF ev.name # "save_preferences" THEN s
        ELSE IF s.ss.db_connected
             THEN IF u.out.exc
                  THEN [s EXCEPT !.db.user_preferences = u.tbl,
                                 !.out.prefs = "Could not save preferences to database."]
                  ELSE [s EXCEPT !.db.user_preferences = u.tbl,
                                 !.ss.user_preferences = kept,
                                 !.out.prefs = "Preferences saved!"]
             ELSE [s EXCEPT !.ss.user_preferences = new_prefs,
                            !.out.prefs = "Preferences saved to session!"]

\* the table with the column calculate_performance_metrics adds to it
WithDailyReturn(frame) ==
    [i \in 1..Len(frame) |->
        [date |-> frame[i].date, Close |-> frame[i].Close,
         daily_return |-> daily_return(frame)[i]]]

\* calculate_performance_metrics on the tables the provider returns, computed
\* once: the metrics and the table afterwards
MetricsOfProviderData ==
    [frame \in {ProviderData} |->
        [metrics |-> calculate_performance_metrics(frame),
         df |-> WithDailyReturn(frame)]]

\* app.py 284-488.  Both selection methods assign ticker_input, so the two
\* branches of lines 286-303 are one.
MainArea(s, f) ==
    LET ticker_input == s.input.ticker_input
        changed == ticker_input # s.ss.selected_ticker
        h == IF changed /\ s.ss.db_connected
             THEN add_to_search_history(s.db.search_history, ticker_input, USER_ID,
                                        f.history)
             ELSE [tbl |-> s.db.search_history, out |-> Return(FALSE)]
        current_ticker == IF changed THEN ticker_input ELSE s.ss.selected_ticker
        d == fetch_stock_data(f.data)
        info == fetch_company_info(f.info)
        t == [s EXCEPT !.ss.selected_ticker = current_ticker,
                       !.db.search_history = h.tbl,
                       !.out.fetched = current_ticker]
    IN  IF s.stop # "" THEN s
        ELSE IF d.exc THEN [t EXCEPT !.out.main = "An error occurred"]
        ELSE IF Len(d.val) = 0 THEN [t EXCEPT !.out.main = "No data found"]
        ELSE [t EXCEPT !.out.main = "charts",
                       !.out.info = IF info.exc
                                    THEN "Error fetching company information"
                                    ELSE IF info.val = "info" THEN "overview"
                                    ELSE "Unable to fetch company information",
                       !.df = MetricsOfProviderData[d.val].df,
                       !.metrics = MetricsOfProviderData[d.val].metrics]

\* app.py 50-105
SessionInit(s, f) ==
    InitSelectedTicker(InitWatchlist(InitPreferences(InitDatabase(s, f), f), f))

\* app.py 112-242
Sidebar(s, ev, f) == WatchlistButtons(AddButton(RecentSearches(s, ev, f), ev, f), ev, f)

\* one run of the script
ScriptRun(s, ev, f) ==
    MainArea(PreferencesExpander(Sidebar(SessionInit(s, f), ev, f), ev, f), f)

(***************************************************************************)
(* The application as a state machine: the session starts, the user acts   *)
(* on a widget, the script runs.  Every storage call and every provider    *)
(* call of a run may fail.                                                 *)
(***************************************************************************)
Event(name, ticker, index, prefs) ==
    [name |-> name, ticker |-> ticker, index |-> index, prefs |-> prefs]

Plain(name) == Event(name, "", 0, SafePreferences)

\* every call succeeds
NoFailure ==
    [init_db |-> FALSE, get_user_preferences |-> FALSE, get_watchlist |-> FALSE,
     seed |-> [i \in 1..Len(default_watchlist) |-> FALSE],
     get_recent_searches |-> FALSE, write |-> FALSE, history |-> FALSE,
     check |-> "data", data |-> "data", info |-> "info"]

StorageFails(f) ==
    \/ f.init_db \/ f.get_user_preferences \/ f.get_watchlist
    \/ \E i \in DOMAIN f.seed : f.seed[i]
    \/ f.get_recent_searches \/ f.write \/ f.history

\* of the outcomes of a run, those the call record keeps
Failed(f) ==
    [init_db |-> f.init_db, get_user_preferences |-> f.get_user_preferences,
     get_watchlist |-> f.get_watchlist, write |-> f.write,
     data |-> f.data, info |-> f.info]

\* what the provider does in the main area: the download raises or returns an
\* empty table, or it returns data and the info lookup raises or succeeds
ProviderOutcomes ==
    { [data |-> "raise", info |-> "info"], [data |-> "empty", info |-> "info"],
      [data |-> "data", info |-> "raise"], [data |-> "data", info |-> "info"] }

\* the outcomes of a run without a button: the storage calls and the provider
\* calls of the sidebar and the main area
MainFailures ==
    { [NoFailure EXCEPT !.get_recent_searches = r, !.history = h,
                        !.data = p.data, !.info = p.info] :
        r \in BOOLEAN, h \in BOOLEAN, p \in ProviderOutcomes }

\* the outcomes of the storage write of a button's handler
WriteFailures == { [NoFailure EXCEPT !.write = w] : w \in BOOLEAN }

ProviderFails(f) == f.check # "data" \/ f.data # "data" \/ f.info # "info"

\* what a run costs that an interaction worth `interaction` starts
Cost(interaction, f) ==
    interaction + (IF StorageFails(f) \/ ProviderFails(f) THEN 1 ELSE 0)

\* the script runs once; s is the state at its end
Run(ev, input, f, interaction) ==
    LET s0 == [db |-> Tables, ss |-> session_state, input |-> input,
               out |-> [BlankScreen EXCEPT
                          !.rerun_of = IF ev.name = "rerun" THEN screen.clicked ELSE "",
                          !.storage_ok = screen.storage_ok /\ ~StorageFails(f)],
               df |-> <<>>, metrics |-> NoMetrics, stop |-> ""]
    IN  /\ nops + Cost(interaction, f) <= Budget
        /\ \E s \in {ScriptRun(s0, ev, f)} :
              /\ nops' = nops + Cost(interaction, f)
              /\ prev' = Tables
              /\ last' = ev.name :> [op |-> ev.name, user |-> USER_ID, arg |-> ev,
                                     failed |-> Failed(f), exc |-> FALSE, val |-> FALSE,
                                     twice |-> FALSE, first |-> FALSE,
                                     before |-> session_state]
              /\ watchlists' = s.db.watchlists
              /\ search_history' = s.db.search_history
              /\ user_preferences' = s.db.user_preferences
              /\ session_state' = s.ss
              /\ widgets' = input
              /\ df' = s.df
              /\ metrics' = s.metrics
              /\ screen' = [s.out EXCEPT !.completed = (s.stop = ""),
                                         !.rerun = (s.stop = "rerun"),
                                         !.uncaught = (s.stop = "uncaught")]

Idle == session_state.db_initialized /\ ~screen.rerun

\* the first script run of a session
FirstRun ==
    /\ ~session_state.db_initialized
    /\ \E i \in BOOLEAN, p \in BOOLEAN, w \in BOOLEAN,
          seed \in [1..Len(default_watchlist) -> BOOLEAN], f \in MainFailures :
          Run(Plain("start"), widgets,
              [f EXCEPT !.init_db = i, !.get_user_preferences = p,
                        !.get_watchlist = w, !.seed = seed], 0)

\* the run st.rerun() starts
Rerun ==
    /\ screen.rerun
    /\ \E f \in MainFailures : Run(Plain("rerun"), widgets, f, 0)

\* the user picks another ticker in the selectbox (or types one)
ChangeTickerInput ==
    /\ Idle
    /\ \E t \in AppTickers \ {widgets.ticker_input}, f \in MainFailures :
          Run(Plain("change_ticker"), [widgets EXCEPT !.ticker_input = t], f, 1)

\* the user clicks a button of the recent searches shown
ClickRecentSearch ==
    /\ Idle
    /\ \E i \in 1..Len(screen.recent_buttons), f \in WriteFailures, r \in BOOLEAN :
          Run(Event("click_recent", screen.recent_buttons[i], 0, SafePreferences),
              widgets, [f EXCEPT !.get_recent_searches = r], 1)

\* the user types a ticker and clicks Add
ClickAdd ==
    /\ Idle
    /\ \E new_ticker \in AppTickers \cup {""}, f \in WriteFailures,
          c \in {"raise", "empty", "data"} :
          Run(Event("click_add", new_ticker, 0, SafePreferences), widgets,
              [f EXCEPT !.check = c], 1)

\* the user clicks the button of a ticker of the watchlist shown
ClickWatchlistTicker ==
    /\ Idle
    /\ \E i \in 1..Len(screen.watch_buttons), f \in WriteFailures :
          Run(Event("click_select", screen.watch_buttons[i], 0, SafePreferences),
              widgets, f, 1)

\* the user clicks the x button of a ticker of the watchlist shown
ClickRemove ==
    /\ Idle
    /\ \E i \in 1..Len(screen.watch_buttons), f \in WriteFailures :
          Run(Event("click_remove", "", i, SafePreferences), widgets, f, 1)

\* the user sets the preference widgets and clicks Save Preferences
SavePreferences ==
    /\ Idle
    /\ \E new_prefs \in NewPrefs, f \in WriteFailures :
          Run(Event("save_preferences", "", 0, new_prefs), widgets, f, 1)

NextApp ==
    \/ FirstRun
    \/ Rerun
    \/ ChangeTickerInput
    \/ ClickRecentSearch
    \/ ClickAdd
    \/ ClickWatchlistTicker
    \/ ClickRemove
    \/ SavePreferences

\* what earlier sessions may have left in the tables: nothing, or a watchlist
\* changed by Add and x, saved preferences and a search history
StoredBySessions ==
    { EmptyTables,
      [watchlists |-> <<[user_id |-> USER_ID, ticker |-> "MSFT"],
                        [user_id |-> USER_ID, ticker |-> "TSLA"]>>,
       search_history |-> <<[user_id |-> USER_ID, ticker |-> "MSFT", searched_at |-> 1],
                            [user_id |-> USER_ID, ticker |-> "AAPL", searched_at |-> 2]>>,
       user_preferences |->
           <<[user_id |-> USER_ID, default_ticker |-> "MSFT",
              default_period |-> "1 Month", theme |-> "dark",
              show_ma50 |-> 0, show_ma200 |-> 1]>>] }

\* a session opens: st.session_state is empty, the widgets hold their initial
\* values
InitApp ==
    /\ \E stored \in StoredBySessions :
          /\ watchlists = stored.watchlists
          /\ search_history = stored.search_history
          /\ user_preferences = stored.user_preferences
          /\ prev = stored
    /\ session_state = NoSession
    /\ widgets = NoInput
    /\ screen = BlankScreen
    /\ last = NoCall
    /\ nops = 0
    /\ df = <<>>
    /\ metrics = NoMetrics

SpecApp == InitApp /\ [][NextApp]_vars

(***************************************************************************)
(* Claims about the persistence layer.                                     *)
(***************************************************************************)
WatchlistUnique ==
    \A u \in Users, t \in Tickers : CountRows(watchlists, u, t) <= 1

\* C1, as claimed: the watchlist holds at most one entry per (user_id, ticker),
\* and of two calls add_to_watchlist(t, u) in a row the first returns True, the
\* second returns False and exactly one entry for (u, t) is left.
C1_AddTwiceTrueFalse ==
    /\ WatchlistUnique
    /\ (Last.op = "add_to_watchlist" /\ Last.twice) =>
          /\ Last.first = TRUE
          /\ Last.val = FALSE
          /\ CountRows(watchlists, Last.user, Last.arg) = 1

\* C1, amended: the watchlist holds at most one entry per (user_id, ticker);
\* of two calls add_to_watchlist(t, u) in a row in which the storage does not
\* fail, the second returns False and exactly one entry for (u, t) is left, and
\* the first returns True exactly when (u, t) was not stored before it.
C1_WatchlistUnique ==
    /\ WatchlistUnique
    /\ (Last.op = "add_to_watchlist" /\ Last.twice) =>
          /\ Last.val = FALSE
          /\ CountRows(watchlists, Last.user, Last.arg) = 1
    /\ \A u \in Users, t \in Tickers :
          LET r1 == add_to_watchlist(watchlists, t, u, FALSE)
              r2 == add_to_watchlist(r1.tbl, t, u, FALSE)
          IN  /\ ~r1.out.exc /\ ~r2.out.exc
              /\ r1.out.val = (CountRows(watchlists, u, t) = 0)
              /\ r2.out.val = FALSE
              /\ CountRows(r2.tbl, u, t) = 1

\* two calls in a row, the first added the ticker and the second found it
C1_Witness ==
    /\ Last.op = "add_to_watchlist"
    /\ Last.twice
    /\ Last.first = TRUE
    /\ Last.val = FALSE
    /\ CountRows(watchlists, Last.user, Last.arg) = 1

\* C2: user_preferences holds at most one row per user_id, and a successful
\* update_user_preferences(p, u) for a user that had a row overwrites that row:
\* no row is added, and a following get_user_preferences(u) returns p's value
\* for every field p sets.
C2_PreferencesOverwrite ==
    /\ \A u \in Users : CountUser(user_preferences, u) <= 1
    /\ ( /\ Last.op = "update_user_preferences"
         /\ ~Last.exc
         /\ Last.val = TRUE
         /\ CountUser(prev.user_preferences, Last.user) > 0 ) =>
          LET g == get_user_preferences(user_preferences, Last.user, FALSE)
          IN  /\ Len(user_preferences) = Len(prev.user_preferences)
              /\ g.tbl = user_preferences
              /\ ~g.out.exc
              /\ \A f \in DOMAIN Last.arg : g.out.val[f] = Last.arg[f]

\* an update of an existing row that changed it
C2_Witness ==
    /\ Last.op = "update_user_preferences"
    /\ Last.val = TRUE
    /\ CountUser(prev.user_preferences, Last.user) = 1
    /\ prev.user_preferences # user_preferences
    /\ \E v \in Users \ {Last.user} : CountUser(user_preferences, v) = 1

PersistenceOps ==
    {"get_watchlist", "add_to_watchlist", "remove_from_watchlist",
     "add_to_search_history", "get_recent_searches", "get_user_preferences",
     "update_user_preferences"}

\* C3: a persistence operation never lets an exception out, and when the
\* storage failed in it, it returns its safe value: the empty list, False, or
\* the default preferences AAPL / 1 Year / light / 1 / 1.
C3_SafeValueOnFailure ==
    Last.op \in PersistenceOps =>
        /\ ~Last.exc
        /\ Last.failed =>
             CASE Last.op \in {"get_watchlist", "get_recent_searches"} ->
                    Last.val = <<>>
               [] Last.op = "get_user_preferences" ->
                    Last.val = [default_ticker |-> "AAPL", default_period |-> "1 Year",
                                theme |-> "light", show_ma50 |-> 1, show_ma200 |-> 1]
               [] OTHER -> Last.val = FALSE

\* the storage failed while the preferences of a user with a changed row were read
C3_Witness ==
    /\ Last.op = "get_user_preferences"
    /\ Last.failed
    /\ ~Last.exc
    /\ \E i \in 1..Len(user_preferences) :
          /\ user_preferences[i].user_id = Last.user
          /\ user_preferences[i].theme = "dark"

IsPrefix(s, t) ==
    /\ Len(s) <= Len(t)
    /\ \A i \in 1..Len(s) : t[i] = s[i]

\* C4: the search history is append-only: whatever is called, the records
\* stored before are still there, unchanged and in place; a successful
\* add_to_search_history(t, u) adds exactly one record, for (u, t), also when
\* t was recorded for u before.
C4_SearchHistoryAppendOnly ==
    /\ IsPrefix(prev.search_history, search_history)
    /\ (Last.op = "add_to_search_history" /\ ~Last.exc /\ Last.val = TRUE) =>
          /\ Len(search_history) = Len(prev.search_history) + 1
          /\ CountUser(search_history, Last.user)
               = CountUser(prev.search_history, Last.user) + 1
          /\ search_history[Len(search_history)].user_id = Last.user
          /\ search_history[Len(search_history)].ticker = Last.arg

\* a ticker recorded for the user before is recorded again
C4_Witness ==
    /\ Last.op = "add_to_search_history"
    /\ Last.val = TRUE
    /\ CountRows(prev.search_history, Last.user, Last.arg) > 0
    /\ CountRows(search_history, Last.user, Last.arg) > 1

(***************************************************************************)
(* Claims about calculate_performance_metrics, read off the table it was   *)
(* called with (bar i of the model is close[i-1] of the claims).           *)
(***************************************************************************)
Closes == Column(df, "Close")

NBars == Len(df)

DailyStd == SeriesStd(daily_return(df))

DailyMean == SeriesMean(daily_return(df))

\* C5, as claimed: for one bar, daily, monthly, YTD and annual returns,
\* volatility and Sharpe ratio are all 0 and the returns vector is empty.
C5_SingleBarAllZero ==
    (metrics.done /\ NBars = 1) =>
        /\ metrics.daily_returns = Zero
        /\ metrics.monthly_returns = Zero
        /\ metrics.ytd_returns = Zero
        /\ metrics.annual_returns = Zero
        /\ metrics.volatility = Zero
        /\ metrics.sharpe_ratio = Zero
        /\ metrics.returns = <<>>

\* C6, as claimed: a division by zero yields 0 for its metric: a zero close as
\* the base of the daily, monthly, YTD or annual return, a zero standard
\* deviation in the Sharpe ratio.
C6_ZeroDenominatorYieldsZero ==
    metrics.done =>
        LET n == NBars
            inYear == {i \in 1..n : df[i].date >= start_of_year}
            monthBase == IF n >= 30 THEN n - 29 ELSE 1
            yearBase == IF n > 252 THEN n - 251 ELSE 1
        IN  /\ (n >= 2 /\ Closes[n - 1] = Zero) => metrics.daily_returns = Zero
            /\ Closes[monthBase] = Zero => metrics.monthly_returns = Zero
            /\ (\E i \in inYear : Closes[i] = Zero /\ \A j \in inYear : i <= j)
                  => metrics.ytd_returns = Zero
            /\ Closes[yearBase] = Zero => metrics.annual_returns = Zero
            /\ DailyStd = Zero => metrics.sharpe_ratio = Zero

\* C7, as claimed: sharpe_ratio is 0 when the standard deviation of the daily
\* returns is 0, and mean / std * sqrt(252) otherwise.
C7_SharpeZeroOnlyForZeroStd ==
    metrics.done =>
        metrics.sharpe_ratio =
            IF DailyStd = Zero THEN Zero
            ELSE TimesSqrt252(DivByRoot(DailyMean, DailyStd))

\* C7, amended: sharpe_ratio is 0 when the standard deviation of the daily
\* returns is 0 (as for three or more identical non-zero closes) or undefined
\* (fewer than two defined daily returns, or an infinite one); otherwise it is
\* mean / std * sqrt(252): it has the sign of the mean, and its square times
\* the variance is 252 times the square of the mean.
C7_SharpeGuarded ==
    metrics.done =>
        LET sr == metrics.sharpe_ratio
            defined == DropNa(daily_return(df))
        IN  /\ DailyStd = Zero => sr = Zero
            /\ IsNaN(DailyStd) => sr = Zero
            /\ IsNaN(DailyStd) <=>
                  (Len(defined) < 2 \/ \E i \in 1..Len(defined) : IsInf(defined[i]))
            /\ (NBars >= 3 /\ Closes[1] # Zero /\ \A i \in 1..NBars : Closes[i] = Closes[1])
                  => DailyStd = Zero
            /\ Positive(DailyStd) =>
                  /\ sr.k = (IF DailyMean = Zero THEN "rat" ELSE "root252")
                  /\ Sign(sr) = Sign(DailyMean)
                  /\ VMul(Rat(Abs(sr.n), sr.d), Rat(DailyStd.n, DailyStd.d))
                        = VMul(DailyMean, DailyMean)

\* three or more identical closes: the standard deviation is 0
C7_Witness ==
    /\ metrics.done
    /\ NBars >= 3
    /\ \A i \in 1..NBars : Closes[i] = Rat(1, 1)
    /\ DailyStd = Zero
    /\ metrics.sharpe_ratio = Zero

\* C8: monthly_returns is (close[n-1]/close[n-30] - 1)*100 for n >= 30 bars and
\* (close[n-1]/close[0] - 1)*100 for fewer; at n = 30 the two are the same, and
\* for 40 bars the base is close[-30], the bar at position 10.
C8_MonthlyReturns ==
    metrics.done =>
        LET n == NBars IN
        /\ n >= 30 => metrics.monthly_returns = PctOver(Closes[n], Closes[n - 29])
        /\ n < 30 => metrics.monthly_returns = PctOver(Closes[n], Closes[1])
        /\ n = 30 => PctOver(Closes[n], Closes[n - 29]) = PctOver(Closes[n], Closes[1])
        /\ n = 40 => metrics.monthly_returns = PctOver(Closes[40], Closes[11])

\* 40 bars whose base bar differs from its neighbours and from the first bar
C8_Witness ==
    /\ metrics.done
    /\ NBars = 40
    /\ Closes[11] # Closes[12]
    /\ Closes[11] # Closes[1]
    /\ Closes[11] # Zero
    /\ metrics.monthly_returns # Zero

\* C9: annual_returns is (close[n-1]/close[n-252] - 1)*100 for n > 252 bars and
\* (close[n-1]/close[0] - 1)*100 for n <= 252; the base is a bar of the series.
C9_AnnualReturns ==
    metrics.done =>
        LET n == NBars
            base == IF n > 252 THEN n - 251 ELSE 1
        IN  /\ base \in 1..n
            /\ n > 252 => metrics.annual_returns = PctOver(Closes[n], Closes[n - 251])
            /\ n <= 252 => metrics.annual_returns = PctOver(Closes[n], Closes[1])

\* more than 252 bars, the base bar differing from the first and the last bar
C9_Witness ==
    /\ metrics.done
    /\ NBars > 252
    /\ Closes[NBars - 251] # Closes[1]
    /\ Closes[NBars - 251] # Closes[NBars]
    /\ Closes[NBars - 251] # Zero
    /\ metrics.annual_returns # Zero

\* C10: ytd_returns is (last close / first close - 1)*100 over the bars dated
\* on or after January 1 of the current year, and 0 when there is none, as for
\* a series that ends before January 1.
C10_YtdReturns ==
    metrics.done =>
        LET inYear == {i \in 1..NBars : df[i].date >= start_of_year}
            first == CHOOSE i \in inYear : \A j \in inYear : i <= j
            final == CHOOSE i \in inYear : \A j \in inYear : j <= i
        IN  /\ inYear # {} =>
                  metrics.ytd_returns = PctOver(Closes[final], Closes[first])
            /\ inYear = {} => metrics.ytd_returns = Zero
            /\ df[NBars].date < start_of_year => metrics.ytd_returns = Zero

\* the series crosses January 1 and has a bar dated January 1
C10_Witness ==
    /\ metrics.done
    /\ \E i \in 2..(NBars - 1) :
          /\ df[i].date = start_of_year
          /\ Closes[i] # Closes[i + 1]
          /\ Closes[i] # Closes[1]
          /\ Closes[i] # Zero
    /\ metrics.ytd_returns # Zero

\* C11: for n >= 1 bars with defined non-zero closes the returns vector has
\* n - 1 elements, element i being (close[i+1] / close[i] - 1)*100, and
\* daily_returns is its last element for n >= 2 and 0 for n < 2; the closes
\* 100, 102, 101, 105, 103 give daily_returns (103/105 - 1)*100 = -40/21.
C11_ReturnsVector ==
    /\ (metrics.done /\ \A i \in 1..NBars : Closes[i] # Zero) =>
          /\ Len(metrics.returns) = NBars - 1
          /\ \A i \in 1..(NBars - 1) :
                metrics.returns[i] = PctOver(Closes[i + 1], Closes[i])
          /\ NBars >= 2 => metrics.daily_returns = metrics.returns[NBars - 1]
          /\ NBars < 2 => metrics.daily_returns = Zero
    /\ LET closes == <<100, 102, 101, 105, 103>>
           frame == [i \in 1..Len(closes) |-> [date |-> i, Close |-> Rat(closes[i], 1)]]
       IN  /\ daily_returns(frame) = PctOver(Rat(103, 1), Rat(105, 1))
           /\ daily_returns(frame) = Rat(-40, 21)
           /\ DropNa(daily_return(frame))
                 = <<Rat(2, 1), Rat(-50, 51), Rat(400, 101), Rat(-40, 21)>>

\* three or more non-zero closes whose last return differs from the first one
C11_Witness ==
    /\ metrics.done
    /\ NBars >= 3
    /\ \A i \in 1..NBars : Closes[i] # Zero
    /\ Len(metrics.returns) = NBars - 1
    /\ metrics.returns[NBars - 1] # metrics.returns[1]
    /\ metrics.daily_returns = metrics.returns[NBars - 1]

(***************************************************************************)
(* Frame effects of the persistence writes.                                *)
(***************************************************************************)
\* the rows of tbl that do not belong to user_id
RowsOfOthers(tbl, user_id) ==
    LET Other(r) == r.user_id # user_id IN SelectSeq(tbl, Other)

\* the watchlist rows of user_id for the tickers other than ticker
OtherTickers(tbl, user_id, ticker) ==
    LET Rest(r) == r.user_id = user_id /\ r.ticker # ticker IN SelectSeq(tbl, Rest)

\* C16: each persistence write touches only its own table and its own user:
\* the watchlist writes leave search_history and user_preferences unchanged,
\* add_to_search_history leaves watchlists and user_preferences unchanged,
\* update_user_preferences leaves watchlists and search_history unchanged,
\* each of them leaves the rows of the other users unchanged, and
\* remove_from_watchlist leaves the user's other tickers unchanged.
C16_WriteFrame ==
    /\ Last.op \in {"add_to_watchlist", "remove_from_watchlist"} =>
          /\ search_history = prev.search_history
          /\ user_preferences = prev.user_preferences
    /\ Last.op = "add_to_search_history" =>
          /\ watchlists = prev.watchlists
          /\ user_preferences = prev.user_preferences
    /\ Last.op = "update_user_preferences" =>
          /\ watchlists = prev.watchlists
          /\ search_history = prev.search_history
    /\ Last.op \in {"add_to_watchlist", "remove_from_watchlist",
                    "add_to_search_history", "update_user_preferences"} =>
          /\ RowsOfOthers(watchlists, Last.user)
                = RowsOfOthers(prev.watchlists, Last.user)
          /\ RowsOfOthers(search_history, Last.user)
                = RowsOfOthers(prev.search_history, Last.user)
          /\ RowsOfOthers(user_preferences, Last.user)
                = RowsOfOthers(prev.user_preferences, Last.user)
    /\ Last.op = "remove_from_watchlist" =>
          OtherTickers(watchlists, Last.user, Last.arg)
            = OtherTickers(prev.watchlists, Last.user, Last.arg)

\* a ticker is removed from a watchlist that holds another ticker, while
\* another user holds the removed ticker
C16_Witness ==
    /\ Last.op = "remove_from_watchlist"
    /\ Last.val = TRUE
    /\ CountRows(prev.watchlists, Last.user, Last.arg) = 1
    /\ CountRows(watchlists, Last.user, Last.arg) = 0
    /\ OtherTickers(watchlists, Last.user, Last.arg) # <<>>
    /\ \E u \in Users \ {Last.user} : CountRows(watchlists, u, Last.arg) = 1

(***************************************************************************)
(* Claims about the application.                                           *)
(***************************************************************************)
SessionWatchlist == {session_state.watchlist[i] : i \in 1..Len(session_state.watchlist)}

StoredWatchlist ==
    {watchlists[i].ticker : i \in {j \in 1..Len(watchlists) : watchlists[j].user_id = USER_ID}}

\* C12: when the provider call fails, fetch_stock_data returns an empty price
\* table and fetch_company_info returns None; the application then shows
\* "No data found" for the selected ticker and computes no metrics, or, with a
\* price table but no company info, "Unable to fetch company information";
\* metrics are never computed on an empty table.
C12_ProviderFailure ==
    /\ fetch_stock_data("raise") = Return(<<>>)
    /\ fetch_company_info("raise") = Return("None")
    /\ screen.completed =>
          /\ Last.failed.data = "raise" =>
                /\ df = <<>>
                /\ metrics = NoMetrics
                /\ screen.main = "No data found"
                /\ screen.fetched = session_state.selected_ticker
          /\ (Last.failed.data = "data" /\ Last.failed.info = "raise") =>
                /\ screen.main = "charts"
                /\ screen.info = "Unable to fetch company information"
          /\ metrics.done <=> df # <<>>
          /\ df = <<>> <=> screen.main = "No data found"

\* a run of a ticker picked by the user in which the download fails
C12_Witness ==
    /\ screen.completed
    /\ Last.op = "change_ticker"
    /\ Last.failed.data = "raise"
    /\ screen.main = "No data found"
    /\ screen.fetched = widgets.ticker_input
    /\ screen.fetched # "AAPL"

\* C13: whatever the user does and whichever storage or provider calls fail,
\* no script run ends in an uncaught exception: every run ends at the end of
\* the script or in st.rerun(), the session holds its keys, with the safe
\* value in place of a result that could not be read, and the values the
\* widgets of the next run rely on are well formed.
C13_NoUncaughtError ==
    /\ ~screen.uncaught
    /\ session_state.db_initialized =>
          /\ screen.completed \/ screen.rerun
          /\ session_state.has_user_preferences
          /\ session_state.has_watchlist
          /\ session_state.has_selected_ticker
          /\ session_state.user_preferences.default_period \in period_options
          /\ ~HasDuplicates(session_state.watchlist)
    /\ Last.op = "start" =>
          /\ Last.failed.init_db => ~session_state.db_connected
          /\ Last.failed.get_user_preferences =>
                session_state.user_preferences = SafePreferences
          /\ Last.failed.get_watchlist =>
                session_state.watchlist = default_watchlist

\* the storage fails in the handler of a watchlist ticker's button, and the
\* run ends in st.rerun()
C13_Witness ==
    /\ Last.op = "click_select"
    /\ Last.failed.write
    /\ screen.rerun
    /\ ~screen.uncaught
    /\ session_state.selected_ticker = Last.arg.ticker
    /\ search_history = prev.search_history

\* C14, as claimed: the run that follows the click of a ticker button (of the
\* watchlist or of the recent searches) fetches the clicked ticker.
C14_ClickedTickerFetched ==
    (screen.completed /\ screen.rerun_of # "") => screen.fetched = screen.rerun_of

\* C15, as claimed: with the storage connected, Save Preferences reports
\* "Preferences saved!" and replaces the session preferences only if
\* update_user_preferences stored the new values; if the write fails it
\* reports "Could not save preferences to database." and leaves the session
\* preferences unchanged.
C15_SaveReportsStored ==
    (Last.op = "save_preferences" /\ Last.before.db_connected) =>
        LET new_prefs == Last.arg.prefs
            now == session_state.user_preferences
        IN  /\ Last.failed.write =>
                  /\ screen.prefs = "Could not save preferences to database."
                  /\ now = Last.before.user_preferences
            /\ ~Last.failed.write =>
                  /\ screen.prefs = "Preferences saved!"
                  /\ \A k \in PrefFields : now[k] = new_prefs[k]
                  /\ \E i \in 1..Len(user_preferences) :
                        /\ user_preferences[i].user_id = USER_ID
                        /\ \A k \in PrefFields : user_preferences[i][k] = new_prefs[k]

\* C17: in a session whose storage is connected and has not failed, once the
\* watchlist is initialised and after any Add and remove interactions, the session
\* watchlist holds no ticker twice and holds exactly the tickers stored in the
\* watchlists table for the user.
C17_SessionWatchlistIsStored ==
    (session_state.has_watchlist /\ session_state.db_connected /\ screen.storage_ok) =>
        /\ ~HasDuplicates(session_state.watchlist)
        /\ SessionWatchlist = StoredWatchlist

\* the default watchlist after TSLA was added and MSFT removed
C17_Witness ==
    /\ session_state.db_connected
    /\ screen.storage_ok
    /\ screen.completed
    /\ session_state.watchlist = <<"AAPL", "TSLA">>
    /\ StoredWatchlist = {"AAPL", "TSLA"}

====
